---- MODULE Spec2Model ----
(***************************************************************************)
(* The record-cleaning pipeline of notebooks/bios_cleaned.ipynb.           *)
(*                                                                         *)
(* The notebook is a straight line of cells run top to bottom; every cell  *)
(* that changes df, dataset, new_data1..4, output or the output file is    *)
(* one action here, in the notebook's order.  Cells that only display      *)
(* (sample, head, info, value_counts, plots) change nothing and are left   *)
(* out.  A cell that raises stops the run (pc = "failed").                 *)
(*                                                                         *)
(* Text is a sequence of one-character strings.  A missing text value      *)
(* (None / NaN in an object column) is NULL, a missing number is NaN, a    *)
(* missing timestamp is NaT.  Numbers are unsigned integers: the inputs    *)
(* drawn below carry no sign, decimal point or exponent.                   *)
(***************************************************************************)
EXTENDS Integers, Sequences, FiniteSets, TLC

VARIABLES
    pc,          \* the next cell to run, "done" after to_csv, "failed" after a raise
    bios,        \* bios.csv on disk: [header, rows]
    dataset,     \* the DataFrame read by pd.read_csv: [columns, rows]
    df,          \* the working DataFrame: [columns, rows], a row is [idx, v]
    new_data1,   \* df["Born"].str.split("in", expand=True)
    new_data2,   \* df["birth_location"].str.split(",", expand=True)
    new_data3,   \* df["Region_country"].str.split("(", expand=True)
    new_data4,   \* df["Measurements"].str.split("/", expand=True)
    output,      \* df.copy() made just before writing
    csv,         \* cleaned_bios.csv on disk: [state, header, rows]
    writes,      \* number of to_csv calls that completed
    ran          \* the cells that have completed, in execution order

vars == <<pc, bios, dataset, df, new_data1, new_data2, new_data3, new_data4,
          output, csv, writes, ran>>

-----------------------------------------------------------------------------
(* Bounds of the model. *)

MaxRows == 2

-----------------------------------------------------------------------------
(* Missing values. *)

NULL == <<"NaN">>
NaN == -1
NaT == <<0, 0, 0>>
None == <<"None">>       \* a table that does not exist yet
Unknown == <<"U","n","k","n","o","w","n">>

-----------------------------------------------------------------------------
(* Python str primitives, on sequences of characters. *)

IsSpace(c) == c \in {" ", "\t", "\n"}

IsAt(s, d, i) ==
    /\ i + Len(d) - 1 <= Len(s)
    /\ \A k \in 1..Len(d) : s[i + k - 1] = d[k]

RECURSIVE Find(_, _, _)
Find(s, d, i) ==
    IF i + Len(d) - 1 > Len(s) THEN 0
    ELSE IF IsAt(s, d, i) THEN i
    ELSE Find(s, d, i + 1)

Contains(s, d) == Find(s, d, 1) # 0

\* str.split(d): every occurrence of d, left to right, splits.
RECURSIVE StrSplit(_, _)
StrSplit(s, d) ==
    LET p == Find(s, d, 1) IN
    IF p = 0 THEN <<s>>
    ELSE <<SubSeq(s, 1, p - 1)>> \o StrSplit(SubSeq(s, p + Len(d), Len(s)), d)

\* str.replace(old, new): every occurrence of old, left to right.
RECURSIVE StrReplace(_, _, _)
StrReplace(s, old, new) ==
    LET p == Find(s, old, 1) IN
    IF p = 0 THEN s
    ELSE SubSeq(s, 1, p - 1) \o new
         \o StrReplace(SubSeq(s, p + Len(old), Len(s)), old, new)

RECURSIVE LStrip(_)
LStrip(s) == IF s # <<>> /\ IsSpace(Head(s)) THEN LStrip(Tail(s)) ELSE s

RECURSIVE RStrip(_)
RStrip(s) ==
    IF s # <<>> /\ IsSpace(s[Len(s)]) THEN RStrip(SubSeq(s, 1, Len(s) - 1)) ELSE s

StrStrip(s) == RStrip(LStrip(s))

Digits == <<"0","1","2","3","4","5","6","7","8","9">>

IsDigit(c) == \E n \in 1..10 : Digits[n] = c

DigitVal(c) == (CHOOSE n \in 1..10 : Digits[n] = c) - 1

AllDigits(s) == s # <<>> /\ \A k \in 1..Len(s) : IsDigit(s[k])

RECURSIVE IntOf(_)
IntOf(s) ==
    IF s = <<>> THEN 0
    ELSE 10 * IntOf(SubSeq(s, 1, Len(s) - 1)) + DigitVal(s[Len(s)])

-----------------------------------------------------------------------------
(* pandas primitives.  A DataFrame is [columns, rows]; a row is [idx, v],   *)
(* idx its index label and v the function from column name to value.  The  *)
(* result of str.split(expand=True) is [ncols, rows], a row being [idx, p]  *)
(* with p its ncols fragments.                                              *)

Range(s) == {s[i] : i \in 1..Len(s)}

Max(S) == CHOOSE m \in S : \A n \in S : n <= m

IndexOf(s, x) == CHOOSE i \in 1..Len(s) : s[i] = x

RemoveNames(s, S) == SelectSeq(s, LAMBDA c : c \notin S)

\* A cell that raises is not counted as run.
Executed == IF pc' = "failed" THEN ran ELSE Append(ran, pc)

\* df[[c1, ..., cn]]
Select(t, cols) ==
    [columns |-> cols,
     rows |-> [i \in 1..Len(t.rows) |->
                 [idx |-> t.rows[i].idx,
                  v |-> [c \in Range(cols) |-> t.rows[i].v[c]]]]]

\* df.drop(columns=S), S a set of names all present
Drop(t, S) == Select(t, RemoveNames(t.columns, S))

\* the rows of t with column name holding vals[i] in row i
WithColumn(t, name, vals) ==
    [i \in 1..Len(t.rows) |->
        [idx |-> t.rows[i].idx,
         v |-> [c \in Range(t.columns) \cup {name} |->
                  IF c = name THEN vals[i] ELSE t.rows[i].v[c]]]]

\* df.insert(loc, name, value): the new column sits at 0-based position loc;
\* vals[i] is the value the inserted Series holds at the label of row i.
Insert(t, loc, name, vals) ==
    [columns |-> SubSeq(t.columns, 1, loc) \o <<name>>
                 \o SubSeq(t.columns, loc + 1, Len(t.columns)),
     rows |-> WithColumn(t, name, vals)]

\* df[name] = value, for a column that exists or not (a new one goes last)
Assign(t, name, vals) ==
    [columns |-> IF name \in Range(t.columns) THEN t.columns
                 ELSE Append(t.columns, name),
     rows |-> WithColumn(t, name, vals)]

\* df[name], by position
Column(t, name) == [i \in 1..Len(t.rows) |-> t.rows[i].v[name]]

\* df.columns.get_loc(name), 0-based
GetLoc(t, name) == IndexOf(t.columns, name) - 1

\* Series.str.split(d, expand=True): one column per fragment of the row with
\* the most fragments, shorter rows padded with None, NaN rows all NaN; an
\* empty Series gives no column at all.
SplitExpand(t, col, d) ==
    LET frag(r) == IF r.v[col] = NULL THEN <<>> ELSE StrSplit(r.v[col], d)
        n == IF t.rows = <<>> THEN 0
             ELSE Max({1} \cup {Len(frag(t.rows[i])) : i \in 1..Len(t.rows)})
    IN  [ncols |-> n,
         rows |-> [i \in 1..Len(t.rows) |->
                     [idx |-> t.rows[i].idx,
                      p |-> [k \in 1..n |->
                               IF k <= Len(frag(t.rows[i])) THEN frag(t.rows[i])[k]
                               ELSE NULL]]]]

\* new_data[k], by position, k 0-based as in the notebook
Fragment(nd, k) == [i \in 1..Len(nd.rows) |-> nd.rows[i].p[k + 1]]

\* new_data[k] = vals
SetFragment(nd, k, vals) ==
    [ncols |-> nd.ncols,
     rows |-> [i \in 1..Len(nd.rows) |->
                 [idx |-> nd.rows[i].idx,
                  p |-> [j \in 1..nd.ncols |->
                           IF j = k + 1 THEN vals[i] ELSE nd.rows[i].p[j]]]]]

\* new_data[k] read at index label i (index alignment of df.insert)
At(nd, i, k) ==
    IF \E j \in 1..Len(nd.rows) : nd.rows[j].idx = i
    THEN nd.rows[CHOOSE j \in 1..Len(nd.rows) : nd.rows[j].idx = i].p[k + 1]
    ELSE NULL

\* new_data[k] aligned on the index of t
Aligned(nd, k, t) == [i \in 1..Len(t.rows) |-> At(nd, t.rows[i].idx, k)]

\* The dtype read_csv infers: a column with no value at all is float64, and
\* .str on it raises; a file with no rows gives object columns.
IsObject(col) ==
    \/ dataset.rows = <<>>
    \/ \E i \in 1..Len(dataset.rows) : dataset.rows[i].v[col] # NULL

-----------------------------------------------------------------------------
(* Cell 57-60: load bios.csv, copy it. *)

ReadCsv(f) ==
    [columns |-> f.header,
     rows |-> [i \in 1..Len(f.rows) |-> [idx |-> i - 1, v |-> f.rows[i]]]]

Load ==
    /\ pc = "load"
    /\ IF bios.exists
       THEN /\ dataset' = ReadCsv(bios)
            /\ df' = ReadCsv(bios)
            /\ pc' = "drop_duplicates"
       ELSE /\ pc' = "failed"
            /\ UNCHANGED <<dataset, df>>
    /\ ran' = Executed
    /\ UNCHANGED <<bios, new_data1, new_data2, new_data3, new_data4, output,
                   csv, writes>>

(* Cell 157: df = df.drop_duplicates(). *)

\* drop_duplicates whose result is thrown away
KeepDuplicates(rows) == rows

\* keep a row iff no earlier row has the same values in every column
DropDuplicates(rows) ==
    LET keep == {i \in 1..Len(rows) : \A j \in 1..(i - 1) : rows[j].v # rows[i].v}
        F[i \in 0..Len(rows)] ==
            IF i = 0 THEN <<>>
            ELSE IF i \in keep THEN Append(F[i - 1], rows[i]) ELSE F[i - 1]
    IN  F[Len(rows)]

DropDuplicatesCell ==
    /\ pc = "drop_duplicates"
    /\ df' = [df EXCEPT !.rows = DropDuplicates(df.rows)]
    /\ pc' = "drop_columns"
    /\ ran' = Executed
    /\ UNCHANGED <<bios, dataset, new_data1, new_data2, new_data3, new_data4,
                   output, csv, writes>>

(* Cell 167-168: drop the columns of no analytic value; a missing label     *)
(* raises KeyError.                                                         *)

PrunedColumns ==
    {"Nick/petnames", "Title(s)", "Other names", "Nationality",
     "Original name", "Name order"}

DropColumns ==
    /\ pc = "drop_columns"
    /\ IF PrunedColumns \subseteq Range(df.columns)
       THEN df' = Drop(df, PrunedColumns) /\ pc' = "rearrange"
       ELSE df' = df /\ pc' = "failed"
    /\ ran' = Executed
    /\ UNCHANGED <<bios, dataset, new_data1, new_data2, new_data3, new_data4,
                   output, csv, writes>>

(* Cell 188-189: rearrange; a missing label raises KeyError. *)

ArrangedColumns ==
    <<"athlete_id", "Full name", "Used name", "Sex", "Born", "Died", "NOC",
      "Measurements", "Roles", "Affiliations">>

Rearrange ==
    /\ pc = "rearrange"
    /\ IF Range(ArrangedColumns) \subseteq Range(df.columns)
       THEN df' = Select(df, ArrangedColumns) /\ pc' = "insert_name"
       ELSE df' = df /\ pc' = "failed"
    /\ ran' = Executed
    /\ UNCHANGED <<bios, dataset, new_data1, new_data2, new_data3, new_data4,
                   output, csv, writes>>

(* Cell 278: name = "Used name" with the bullet replaced by a space. *)

Bullet == "*"     \* stands for U+2022

\* .str methods and Series.replace leave a missing value as it is
CleanName(x) == IF x = NULL THEN NULL ELSE StrReplace(x, <<Bullet>>, <<" ">>)

InsertName ==
    /\ pc = "insert_name"
    /\ df' = Insert(df, GetLoc(df, "Used name") + 1, "name",
                    [i \in 1..Len(df.rows) |-> CleanName(Column(df, "Used name")[i])])
    /\ pc' = "drop_name_columns"
    /\ ran' = Executed
    /\ UNCHANGED <<bios, dataset, new_data1, new_data2, new_data3, new_data4,
                   output, csv, writes>>

(* Cell 299: drop "Full name" and "Used name". *)

DropNameColumns ==
    /\ pc = "drop_name_columns"
    /\ df' = Drop(df, {"Full name", "Used name"})
    /\ pc' = "split_born"
    /\ ran' = Executed
    /\ UNCHANGED <<bios, dataset, new_data1, new_data2, new_data3, new_data4,
                   output, csv, writes>>

-----------------------------------------------------------------------------
(* Cells 407-441: Born -> birth_date, birth_location. *)

\* Cell 407.  .str raises AttributeError on a float64 column.
SplitBorn ==
    /\ pc = "split_born"
    /\ IF IsObject("Born")
       THEN new_data1' = SplitExpand(df, "Born", <<"i","n">>) /\ pc' = "replace_months"
       ELSE new_data1' = new_data1 /\ pc' = "failed"
    /\ ran' = Executed
    /\ UNCHANGED <<bios, dataset, df, new_data2, new_data3, new_data4, output,
                   csv, writes>>

\* Cell 417: the replacement dictionary, in its order.
Months ==
    <<<<<<"J","a","n","u","a","r","y">>, <<"-","0","1","-">>>>,
      <<<<"F","e","b","r","u","a","r","y">>, <<"-","0","2","-">>>>,
      <<<<"M","a","r","c","h">>, <<"-","0","3","-">>>>,
      <<<<"A","p","r","i","l">>, <<"-","0","4","-">>>>,
      <<<<"M","a","y">>, <<"-","0","5","-">>>>,
      <<<<"J","u","n","e">>, <<"-","0","6","-">>>>,
      <<<<"J","u","l","y">>, <<"-","0","7","-">>>>,
      <<<<"A","u","g","u","s","t">>, <<"-","0","8","-">>>>,
      <<<<"S","e","p","t","e","m","b","e","r">>, <<"-","0","9","-">>>>,
      <<<<"O","c","t","o","b","e","r">>, <<"-","1","0","-">>>>,
      <<<<"N","o","v","e","m","b","e","r">>, <<"-","1","1","-">>>>,
      <<<<"D","e","c","e","m","b","e","r">>, <<"-","1","2","-">>>>>>

RECURSIVE ReplaceFrom(_, _, _)
ReplaceFrom(s, table, k) ==
    IF k > Len(table) THEN s
    ELSE ReplaceFrom(StrReplace(s, table[k][1], table[k][2]), table, k + 1)

ReplaceMonthNames(x) == IF x = NULL THEN NULL ELSE ReplaceFrom(x, Months, 1)

\* new_data1[0] raises KeyError when the split produced no column.
ReplaceMonths ==
    /\ pc = "replace_months"
    /\ IF new_data1.ncols >= 1
       THEN /\ new_data1' =
                  SetFragment(new_data1, 0,
                     [i \in 1..Len(new_data1.rows) |->
                        ReplaceMonthNames(Fragment(new_data1, 0)[i])])
            /\ pc' = "strip_born"
       ELSE new_data1' = new_data1 /\ pc' = "failed"
    /\ ran' = Executed
    /\ UNCHANGED <<bios, dataset, df, new_data2, new_data3, new_data4, output,
                   csv, writes>>

\* Cell 429-430: .str.strip().replace(" ", "", regex=False).  The second
\* call is Series.replace: it replaces a value that IS " ", not the spaces
\* inside a value.
StripValue(x) ==
    IF x = NULL THEN NULL
    ELSE IF StrStrip(x) = <<" ">> THEN <<>> ELSE StrStrip(x)

StripFragment(nd, k) ==
    SetFragment(nd, k, [i \in 1..Len(nd.rows) |-> StripValue(Fragment(nd, k)[i])])

\* Line 430 raises KeyError when no row had a second fragment; line 429 has
\* run by then.
StripBorn ==
    /\ pc = "strip_born"
    /\ IF new_data1.ncols >= 2
       THEN /\ new_data1' = StripFragment(StripFragment(new_data1, 0), 1)
            /\ pc' = "insert_born"
       ELSE /\ new_data1' = StripFragment(new_data1, 0)
            /\ pc' = "failed"
    /\ ran' = Executed
    /\ UNCHANGED <<bios, dataset, df, new_data2, new_data3, new_data4, output,
                   csv, writes>>

\* Cell 440-441: birth_date and birth_location go right after Born.
InsertBorn ==
    /\ pc = "insert_born"
    /\ df' = Insert(Insert(df, GetLoc(df, "Born") + 1, "birth_date",
                           Aligned(new_data1, 0, df)),
                    GetLoc(df, "Born") + 2, "birth_location",
                    Aligned(new_data1, 1, df))
    /\ pc' = "parse_birth_date"
    /\ ran' = Executed
    /\ UNCHANGED <<bios, dataset, new_data1, new_data2, new_data3, new_data4,
                   output, csv, writes>>

(* Cell 461-464: birth_date to a timestamp. *)

\* spaces left where they are
KeepSpaces(x) == x

RemoveSpaces(x) == IF x = NULL THEN NULL ELSE StrReplace(x, <<" ">>, <<>>)

IsLeap(y) == (y % 4 = 0 /\ y % 100 # 0) \/ y % 400 = 0

DaysIn(m, y) ==
    IF m = 2 THEN (IF IsLeap(y) THEN 29 ELSE 28)
    ELSE IF m \in {4, 6, 9, 11} THEN 30 ELSE 31

\* datetime64[ns] holds 1677-09-22 .. 2262-04-11; a date outside is coerced.
InBounds(d, m, y) ==
    /\ (y > 1677 \/ (y = 1677 /\ (m > 9 \/ (m = 9 /\ d >= 22))))
    /\ (y < 2262 \/ (y = 2262 /\ (m < 4 \/ (m = 4 /\ d <= 11))))

\* pd.to_datetime(format="%d-%m-%Y", errors="coerce"): %d and %m take one or
\* two digits, %Y exactly four; anything else, or no such day, is NaT.
ToDatetime(x) ==
    IF x = NULL THEN NaT
    ELSE LET f == StrSplit(x, <<"-">>) IN
         IF Len(f) # 3 THEN NaT
         ELSE IF ~(AllDigits(f[1]) /\ AllDigits(f[2]) /\ AllDigits(f[3])) THEN NaT
         ELSE IF ~(Len(f[1]) <= 2 /\ Len(f[2]) <= 2 /\ Len(f[3]) = 4) THEN NaT
         ELSE LET d == IntOf(f[1])
                  m == IntOf(f[2])
                  y == IntOf(f[3])
              IN  IF m \in 1..12 /\ d >= 1 /\ d <= DaysIn(m, y) /\ InBounds(d, m, y)
                  THEN <<y, m, d>>
                  ELSE NaT

ParseBirthDate ==
    /\ pc = "parse_birth_date"
    /\ df' = Assign(df, "birth_date",
                    [i \in 1..Len(df.rows) |->
                       ToDatetime(RemoveSpaces(Column(df, "birth_date")[i]))])
    /\ pc' = "clean_location"
    /\ ran' = Executed
    /\ UNCHANGED <<bios, dataset, new_data1, new_data2, new_data3, new_data4,
                   output, csv, writes>>

(* Cells 484-576: birth_location -> City, Region, Country. *)

\* Cell 484: str.replace(" ", "") takes every space out of the location.
CleanLocation ==
    /\ pc = "clean_location"
    /\ df' = Assign(df, "birth_location",
                    [i \in 1..Len(df.rows) |-> RemoveSpaces(Column(df, "birth_location")[i])])
    /\ pc' = "split_location"
    /\ ran' = Executed
    /\ UNCHANGED <<bios, dataset, new_data1, new_data2, new_data3, new_data4,
                   output, csv, writes>>

\* Cell 504
SplitLocation ==
    /\ pc = "split_location"
    /\ new_data2' = SplitExpand(df, "birth_location", <<",">>)
    /\ pc' = "insert_location"
    /\ ran' = Executed
    /\ UNCHANGED <<bios, dataset, df, new_data1, new_data3, new_data4, output,
                   csv, writes>>

\* Cell 514-515: new_data2[1] raises KeyError when no location had a comma;
\* City has been inserted by then.
InsertLocation ==
    /\ pc = "insert_location"
    /\ LET one == Insert(df, GetLoc(df, "birth_location") + 1, "City",
                         Aligned(new_data2, 0, df))
       IN  IF new_data2.ncols >= 2
           THEN /\ df' = Insert(one, GetLoc(df, "birth_location") + 2, "Region_country",
                                Aligned(new_data2, 1, df))
                /\ pc' = "split_region"
           ELSE /\ df' = (IF new_data2.ncols >= 1 THEN one ELSE df)
                /\ pc' = "failed"
    /\ ran' = Executed
    /\ UNCHANGED <<bios, dataset, new_data1, new_data2, new_data3, new_data4,
                   output, csv, writes>>

\* Cell 545
SplitRegion ==
    /\ pc = "split_region"
    /\ new_data3' = SplitExpand(df, "Region_country", <<"(">>)
    /\ pc' = "insert_region"
    /\ ran' = Executed
    /\ UNCHANGED <<bios, dataset, df, new_data1, new_data2, new_data4, output,
                   csv, writes>>

\* Cell 555-556: new_data3[1] raises KeyError when no row had a "(".
InsertRegion ==
    /\ pc = "insert_region"
    /\ LET one == Insert(df, GetLoc(df, "Region_country") + 1, "Region",
                         Aligned(new_data3, 0, df))
       IN  IF new_data3.ncols >= 2
           THEN /\ df' = Insert(one, GetLoc(df, "Region_country") + 2, "Country",
                                Aligned(new_data3, 1, df))
                /\ pc' = "clean_country"
           ELSE /\ df' = (IF new_data3.ncols >= 1 THEN one ELSE df)
                /\ pc' = "failed"
    /\ ran' = Executed
    /\ UNCHANGED <<bios, dataset, new_data1, new_data2, new_data3, new_data4,
                   output, csv, writes>>

\* Cell 576
\* the closing parenthesis left in place
KeepParen(x) == x

RemoveParen(x) == IF x = NULL THEN NULL ELSE StrReplace(x, <<")">>, <<>>)

CleanCountry ==
    /\ pc = "clean_country"
    /\ df' = Assign(df, "Country",
                    [i \in 1..Len(df.rows) |-> RemoveParen(Column(df, "Country")[i])])
    /\ pc' = "drop_born_columns"
    /\ ran' = Executed
    /\ UNCHANGED <<bios, dataset, new_data1, new_data2, new_data3, new_data4,
                   output, csv, writes>>

\* Cell 596, with the Measurements cells next and the null-NOC drop not
\* before them
DropBornColumnsThenMeasurements ==
    /\ pc = "drop_born_columns"
    /\ df' = Drop(df, {"Born", "birth_location", "Region_country", "Died"})
    /\ pc' = "split_measurements"
    /\ ran' = Executed
    /\ UNCHANGED <<bios, dataset, new_data1, new_data2, new_data3, new_data4,
                   output, csv, writes>>

\* Cell 596
DropBornColumns ==
    /\ pc = "drop_born_columns"
    /\ df' = Drop(df, {"Born", "birth_location", "Region_country", "Died"})
    /\ pc' = "drop_null_noc"
    /\ ran' = Executed
    /\ UNCHANGED <<bios, dataset, new_data1, new_data2, new_data3, new_data4,
                   output, csv, writes>>

(* Cell 666: df.dropna(subset=["NOC"], inplace=True). *)

\* dropna whose result is thrown away
DropNaForgotten(rows, col) == rows

DropNa(rows, col) == SelectSeq(rows, LAMBDA r : r.v[col] # NULL)

DropNullNOC ==
    /\ pc = "drop_null_noc"
    /\ df' = [df EXCEPT !.rows = DropNa(df.rows, "NOC")]
    /\ pc' = "split_measurements"
    /\ ran' = Executed
    /\ UNCHANGED <<bios, dataset, new_data1, new_data2, new_data3, new_data4,
                   output, csv, writes>>

-----------------------------------------------------------------------------
(* Cells 725-795: Measurements -> height_cm, weight_kg. *)

\* Cell 725.  .str raises AttributeError on a float64 column.
SplitMeasurements ==
    /\ pc = "split_measurements"
    /\ IF IsObject("Measurements")
       THEN new_data4' = SplitExpand(df, "Measurements", <<"/">>) /\ pc' = "assign_measurements"
       ELSE new_data4' = new_data4 /\ pc' = "failed"
    /\ ran' = Executed
    /\ UNCHANGED <<bios, dataset, df, new_data1, new_data2, new_data3, output,
                   csv, writes>>

\* Line 735: strip every fragment.
StripAll(nd) ==
    [ncols |-> nd.ncols,
     rows |-> [i \in 1..Len(nd.rows) |->
                 [idx |-> nd.rows[i].idx,
                  p |-> [j \in 1..nd.ncols |->
                           IF nd.rows[i].p[j] = NULL THEN NULL
                           ELSE StrStrip(nd.rows[i].p[j])]]]]

CM == <<"c","m">>
KG == <<"k","g">>

\* Lines 743-754, one iteration: p the row's stripped fragments (two at
\* least).  What is stored is the fragment with " cm" (height) or " kg"
\* (weight) taken out, the unit together with the space before it.
HeightText(p) ==
    IF p[2] = NULL
    THEN IF p[1] # NULL /\ Contains(p[1], CM)
         THEN StrReplace(p[1], <<" ">> \o CM, <<>>)
         ELSE NULL
    ELSE IF p[1] # NULL THEN StrReplace(p[1], <<" ">> \o CM, <<>>) ELSE NULL

WeightText(p) ==
    IF p[2] = NULL
    THEN IF p[1] # NULL /\ ~Contains(p[1], CM) /\ Contains(p[1], KG)
         THEN StrReplace(p[1], <<" ">> \o KG, <<>>)
         ELSE NULL
    ELSE StrReplace(p[2], <<" ">> \o KG, <<>>)

\* Cell 735-754.  row[1] raises KeyError in the first iteration when no row
\* had a "/"; the strip and the two new columns are in place by then.
AssignMeasurements ==
    /\ pc = "assign_measurements"
    /\ new_data4' = StripAll(new_data4)
    /\ LET nothing == [i \in 1..Len(df.rows) |-> NULL]
           nd == StripAll(new_data4)
           \* the fragments df.at[i, ...] is fed from: the row of new_data4
           \* with the index label of row i of df
           frags(i) == nd.rows[CHOOSE j \in 1..Len(nd.rows) :
                                  nd.rows[j].idx = df.rows[i].idx].p
       IN  IF nd.rows # <<>> /\ nd.ncols < 2
           THEN /\ df' = Assign(Assign(df, "height_cm", nothing), "weight_kg", nothing)
                /\ pc' = "failed"
           ELSE /\ df' = Assign(Assign(df, "height_cm",
                                       [i \in 1..Len(df.rows) |-> HeightText(frags(i))]),
                                "weight_kg",
                                [i \in 1..Len(df.rows) |-> WeightText(frags(i))])
                /\ pc' = "replace_units"
    /\ ran' = Executed
    /\ UNCHANGED <<bios, dataset, new_data1, new_data2, new_data3, output, csv,
                   writes>>

\* Cell 764: the units are taken out of new_data4, which nothing reads after.
RemoveUnits(x) ==
    IF x = NULL THEN NULL ELSE StrReplace(StrReplace(x, CM, <<>>), KG, <<>>)

ReplaceUnits ==
    /\ pc = "replace_units"
    /\ new_data4' =
          [ncols |-> new_data4.ncols,
           rows |-> [i \in 1..Len(new_data4.rows) |->
                       [idx |-> new_data4.rows[i].idx,
                        p |-> [j \in 1..new_data4.ncols |->
                                 RemoveUnits(new_data4.rows[i].p[j])]]]]
    /\ pc' = "to_numeric"
    /\ ran' = Executed
    /\ UNCHANGED <<bios, dataset, df, new_data1, new_data2, new_data3, output,
                   csv, writes>>

\* Cell 774-775: pd.to_numeric(errors="coerce").
ToNumeric(x) ==
    IF x = NULL THEN NaN
    ELSE IF AllDigits(StrStrip(x)) THEN IntOf(StrStrip(x)) ELSE NaN

ToNumericCell ==
    /\ pc = "to_numeric"
    /\ df' = Assign(Assign(df, "height_cm",
                           [i \in 1..Len(df.rows) |-> ToNumeric(Column(df, "height_cm")[i])]),
                    "weight_kg",
                    [i \in 1..Len(df.rows) |-> ToNumeric(Column(df, "weight_kg")[i])])
    /\ pc' = "drop_measurements"
    /\ ran' = Executed
    /\ UNCHANGED <<bios, dataset, new_data1, new_data2, new_data3, new_data4,
                   output, csv, writes>>

\* Cell 795
DropMeasurements ==
    /\ pc = "drop_measurements"
    /\ df' = Drop(df, {"Measurements"})
    /\ pc' = "project"
    /\ ran' = Executed
    /\ UNCHANGED <<bios, dataset, new_data1, new_data2, new_data3, new_data4,
                   output, csv, writes>>

-----------------------------------------------------------------------------
(* Cell 805-806: the final column list. *)

\* the list with City and Region in each other's place
FinalColumnsSwapped ==
    <<"athlete_id", "name", "Sex", "birth_date", "Region", "City", "Country",
      "NOC", "height_cm", "weight_kg", "Roles", "Affiliations">>

FinalColumns ==
    <<"athlete_id", "name", "Sex", "birth_date", "City", "Region", "Country",
      "NOC", "height_cm", "weight_kg", "Roles", "Affiliations">>

Project ==
    /\ pc = "project"
    /\ df' = Select(df, FinalColumns)
    /\ pc' = "fill_unknown"
    /\ ran' = Executed
    /\ UNCHANGED <<bios, dataset, new_data1, new_data2, new_data3, new_data4,
                   output, csv, writes>>

(* Cell 855: fillna("Unknown") on the four text columns. *)

\* the list with Affiliations left out
UnknownColumnsPartial == {"City", "Region", "Country"}

UnknownColumns == {"City", "Region", "Country", "Affiliations"}

FillNa(x, fill) == IF x = NULL THEN fill ELSE x

FillUnknown ==
    /\ pc = "fill_unknown"
    /\ df' = [df EXCEPT !.rows =
                [i \in 1..Len(df.rows) |->
                   [idx |-> df.rows[i].idx,
                    v |-> [c \in Range(df.columns) |->
                             IF c \in UnknownColumns
                             THEN FillNa(df.rows[i].v[c], Unknown)
                             ELSE df.rows[i].v[c]]]]]
    /\ pc' = "impute"
    /\ ran' = Executed
    /\ UNCHANGED <<bios, dataset, new_data1, new_data2, new_data3, new_data4,
                   output, csv, writes>>

(* Cell 885-889: SimpleImputer(strategy="most_frequent") on each numeric    *)
(* column.                                                                  *)

NumericColumns == <<"athlete_id", "height_cm", "weight_kg">>

Observed(rows, col) == {rows[i].v[col] : i \in 1..Len(rows)} \ {NaN}

Count(rows, col, x) == Cardinality({i \in 1..Len(rows) : rows[i].v[col] = x})

\* the position of the first row that holds x
FirstRow(rows, col, x) ==
    CHOOSE i \in 1..Len(rows) :
        /\ rows[i].v[col] = x
        /\ \A j \in 1..(i - 1) : rows[j].v[col] # x

\* the most frequent observed value, the first one met when several tie
MostFrequentFirst(rows, col) ==
    LET top == {x \in Observed(rows, col) :
                   \A y \in Observed(rows, col) : Count(rows, col, y) <= Count(rows, col, x)}
    IN  CHOOSE x \in top : \A y \in top : FirstRow(rows, col, x) <= FirstRow(rows, col, y)

\* the most frequent observed value, the smallest one when several tie
MostFrequent(rows, col) ==
    LET top == {x \in Observed(rows, col) :
                   \A y \in Observed(rows, col) : Count(rows, col, y) <= Count(rows, col, x)}
    IN  CHOOSE x \in top : \A y \in top : x <= y

\* fit_transform raises on a frame with no row.  For a column with no
\* observed value it warns and returns an array of no column; the frame
\* cannot take that array as the column, so the run stops in this cell.
CanImpute(rows) ==
    /\ rows # <<>>
    /\ \A k \in 1..Len(NumericColumns) : Observed(rows, NumericColumns[k]) # {}

\* the cell with no value filled in
ImputeSkipped ==
    /\ pc = "impute"
    /\ df' = df
    /\ pc' = IF CanImpute(df.rows) THEN "fill_birth_date" ELSE "failed"
    /\ ran' = Executed
    /\ UNCHANGED <<bios, dataset, new_data1, new_data2, new_data3, new_data4,
                   output, csv, writes>>

Impute ==
    /\ pc = "impute"
    /\ IF CanImpute(df.rows)
       THEN /\ df' = [df EXCEPT !.rows =
                        [i \in 1..Len(df.rows) |->
                           [idx |-> df.rows[i].idx,
                            v |-> [c \in Range(df.columns) |->
                                     IF c \in Range(NumericColumns) /\ df.rows[i].v[c] = NaN
                                     THEN MostFrequent(df.rows, c)
                                     ELSE df.rows[i].v[c]]]]]
            /\ pc' = "fill_birth_date"
       ELSE df' = df /\ pc' = "failed"
    /\ ran' = Executed
    /\ UNCHANGED <<bios, dataset, new_data1, new_data2, new_data3, new_data4,
                   output, csv, writes>>

(* Cell 899: the sentinel date. *)

Sentinel == <<1975, 1, 1>>

\* a fillna that does not reach the frame
FillNaTLost(x, fill) == x

FillNaT(x, fill) == IF x = NaT THEN fill ELSE x

FillBirthDate ==
    /\ pc = "fill_birth_date"
    /\ df' = Assign(df, "birth_date",
                    [i \in 1..Len(df.rows) |-> FillNaT(Column(df, "birth_date")[i], Sentinel)])
    /\ pc' = "round"
    /\ ran' = Executed
    /\ UNCHANGED <<bios, dataset, new_data1, new_data2, new_data3, new_data4,
                   output, csv, writes>>

(* Cell 909-910: round(1); a whole number is its own rounding. *)

Round1(x) == x

RoundCell ==
    /\ pc = "round"
    /\ df' = Assign(Assign(df, "height_cm",
                           [i \in 1..Len(df.rows) |-> Round1(Column(df, "height_cm")[i])]),
                    "weight_kg",
                    [i \in 1..Len(df.rows) |-> Round1(Column(df, "weight_kg")[i])])
    /\ pc' = "copy_output"
    /\ ran' = Executed
    /\ UNCHANGED <<bios, dataset, new_data1, new_data2, new_data3, new_data4,
                   output, csv, writes>>

(* Cell 948 and cell 958: copy, then write without the index. *)

CopyOutput ==
    /\ pc = "copy_output"
    /\ output' = df
    /\ pc' = "to_csv"
    /\ ran' = Executed
    /\ UNCHANGED <<bios, dataset, df, new_data1, new_data2, new_data3,
                   new_data4, csv, writes>>

Written(t) ==
    [state |-> "complete", header |-> t.columns,
     rows |-> [i \in 1..Len(t.rows) |-> t.rows[i].v]]

NoFile == [state |-> "absent", header |-> <<>>, rows |-> <<>>]

\* the write cell run although an earlier cell raised
ToCsvAnyway ==
    /\ pc \in {"to_csv", "failed"}
    /\ csv' = [state |-> "complete", header |-> <<>>, rows |-> <<>>]
    /\ writes' = writes + 1
    /\ pc' = "done"
    /\ ran' = ran
    /\ UNCHANGED <<bios, dataset, df, new_data1, new_data2, new_data3,
                   new_data4, output>>

\* to_csv completes, or raises (the path cannot be opened, the disk fills)
\* and leaves no file or a truncated one.
ToCsv ==
    /\ pc = "to_csv"
    /\ \/ /\ csv' = Written(output)
          /\ writes' = writes + 1
          /\ pc' = "done"
       \/ /\ csv' \in {NoFile, [state |-> "partial", header |-> output.columns, rows |-> <<>>]}
          /\ writes' = writes
          /\ pc' = "failed"
    /\ ran' = Executed
    /\ UNCHANGED <<bios, dataset, df, new_data1, new_data2, new_data3,
                   new_data4, output>>

-----------------------------------------------------------------------------
(* The notebook's state-changing cells, top to bottom. *)

Cells ==
    <<"load", "drop_duplicates", "drop_columns", "rearrange", "insert_name",
      "drop_name_columns", "split_born", "replace_months", "strip_born",
      "insert_born", "parse_birth_date", "clean_location", "split_location",
      "insert_location", "split_region", "insert_region", "clean_country",
      "drop_born_columns", "drop_null_noc", "split_measurements",
      "assign_measurements", "replace_units", "to_numeric",
      "drop_measurements", "project", "fill_unknown", "impute",
      "fill_birth_date", "round", "copy_output", "to_csv">>

-----------------------------------------------------------------------------
(* The input files the model runs on. *)

\* the header of bios.csv
FullHeader ==
    <<"Roles", "Sex", "Full name", "Used name", "Born", "Died", "NOC",
      "athlete_id", "Measurements", "Affiliations", "Nick/petnames",
      "Title(s)", "Other names", "Nationality", "Original name", "Name order">>

\* headers with a prunable column missing, with a column more, with a
\* needed column missing
Headers ==
    {FullHeader,
     RemoveNames(FullHeader, {"Nationality"}),
     Append(FullHeader, "Comment"),
     RemoveNames(FullHeader, {"Died"})}

\* one line of the file: the fields the pipeline reads vary, the others are
\* fixed text or empty
Line(header, q) ==
    [c \in Range(header) |->
        CASE c = "athlete_id" -> q.id
          [] c = "Born" -> q.born
          [] c = "NOC" -> q.noc
          [] c = "Measurements" -> q.meas
          [] c = "Affiliations" -> q.aff
          [] c = "Sex" -> <<"M">>
          [] c = "Roles" -> <<"R">>
          [] c = "Full name" -> <<"A"," ","B">>
          [] c = "Used name" -> <<"A",Bullet,"B">>
          [] OTHER -> NULL]

People ==
    {[id |-> 1, born |-> <<"1"," ","M","a","y"," ","1","9","8","0"," ","i","n"," ","R","o","m","e",","," ","L","a","z","i","o"," ","(","I","T","A",")">>,
       noc |-> <<"I","T","A">>, meas |-> <<"1","7","8"," ","c","m"," ","/"," ","7","5"," ","k","g">>,
       aff |-> <<"C","l","u","b">>],
     [id |-> 2, born |-> NULL,
       noc |-> <<"I","T","A">>, meas |-> <<"1","8","0"," ","c","m">>,
       aff |-> NULL],
     [id |-> 3, born |-> <<"1"," ","M","a","y"," ","1","9","8","0"," ","i","n"," ","R","o","m","e",","," ","L","a","z","i","o"," ","(","I","T","A",")">>,
       noc |-> NULL, meas |-> <<"7","5"," ","k","g">>,
       aff |-> <<"C","l","u","b">>],
     [id |-> 4, born |-> <<"2"," ","J","u","n","e"," ","1","9","9","0"," ","i","n"," ","O","s","l","o">>,
       noc |-> <<"N","O","R">>, meas |-> <<"1","7","0"," ","c","m"," ","/"," ","6","0"," ","k","g">>,
       aff |-> NULL],
     [id |-> 5, born |-> <<"1","9","9","0"," ","i","n"," ","B","e","r","n",","," ","B","e","r","n">>,
       noc |-> NULL, meas |-> NULL,
       aff |-> <<"C","l","u","b">>]}

\* Born in every shape, the rest well-formed
BornPeople ==
    {[id |-> 11, born |-> <<"1"," ","M","a","y"," ","1","9","8","0"," ","i","n"," ","R","o","m","e",","," ","L","a","z","i","o"," ","(","I","T","A",")">>,
       noc |-> <<"I","T","A">>, meas |-> <<"1","7","8"," ","c","m"," ","/"," ","7","5"," ","k","g">>,
       aff |-> <<"C","l","u","b">>],
     [id |-> 12, born |-> NULL,
       noc |-> <<"I","T","A">>, meas |-> <<"1","7","8"," ","c","m"," ","/"," ","7","5"," ","k","g">>,
       aff |-> <<"C","l","u","b">>],
     [id |-> 13, born |-> <<"1"," ","M","a","y"," ","1","9","8","0">>,
       noc |-> <<"I","T","A">>, meas |-> <<"1","7","8"," ","c","m"," ","/"," ","7","5"," ","k","g">>,
       aff |-> <<"C","l","u","b">>],
     [id |-> 14, born |-> <<"1","9","8","0"," ","i","n"," ","R","o","m","e",","," ","L","a","z","i","o"," ","(","I","T","A",")">>,
       noc |-> <<"I","T","A">>, meas |-> <<"1","7","8"," ","c","m"," ","/"," ","7","5"," ","k","g">>,
       aff |-> <<"C","l","u","b">>],
     [id |-> 15, born |-> <<"2"," ","J","u","n","e"," ","1","9","9","0"," ","i","n"," ","O","s","l","o">>,
       noc |-> <<"I","T","A">>, meas |-> <<"1","7","8"," ","c","m"," ","/"," ","7","5"," ","k","g">>,
       aff |-> <<"C","l","u","b">>],
     [id |-> 16, born |-> <<"2"," ","J","u","n","e"," ","1","9","9","0"," ","i","n"," ","B","e","r","n",","," ","B","e","r","n">>,
       noc |-> <<"I","T","A">>, meas |-> <<"1","7","8"," ","c","m"," ","/"," ","7","5"," ","k","g">>,
       aff |-> <<"C","l","u","b">>],
     [id |-> 17, born |-> <<"3"," ","J","u","l","y"," ","1","9","8","5"," ","i","n"," ","B","e","r","l","i","n",","," ","B","e","r","l","i","n"," ","(","G","E","R",")">>,
       noc |-> <<"I","T","A">>, meas |-> <<"1","7","8"," ","c","m"," ","/"," ","7","5"," ","k","g">>,
       aff |-> <<"C","l","u","b">>],
     [id |-> 18, born |-> <<"4"," ","M","a","r","c","h"," ","1","9","7","0"," ","i","n"," ","N","e","w"," ","Y","o","r","k",","," ","N","e","w"," ","Y","o","r","k"," ","(","U","S","A",")">>,
       noc |-> <<"I","T","A">>, meas |-> <<"1","7","8"," ","c","m"," ","/"," ","7","5"," ","k","g">>,
       aff |-> <<"C","l","u","b">>],
     [id |-> 19, born |-> <<"5"," ","A","p","r","i","l"," ","1","9","6","0"," ","i","n"," ","U","l","m",","," ","B","a","d","e","n",","," ","S","u","e","d"," ","(","G","E","R",")">>,
       noc |-> <<"I","T","A">>, meas |-> <<"1","7","8"," ","c","m"," ","/"," ","7","5"," ","k","g">>,
       aff |-> <<"C","l","u","b">>],
     [id |-> 20, born |-> <<"3","1"," ","F","e","b","r","u","a","r","y"," ","1","9","8","0"," ","i","n"," ","R","o","m","e",","," ","L","a","z","i","o"," ","(","I","T","A",")">>,
       noc |-> <<"I","T","A">>, meas |-> <<"1","7","8"," ","c","m"," ","/"," ","7","5"," ","k","g">>,
       aff |-> <<"C","l","u","b">>],
     [id |-> 21, born |-> <<"1","2"," ","J","a","n","u","a","r","y"," ","1","9","8","0"," ","i","n"," ","P","a","r","i","s",","," ","F","r","a","n","c","e"," ","(","I","l","e",")">>,
       noc |-> <<"I","T","A">>, meas |-> <<"1","7","8"," ","c","m"," ","/"," ","7","5"," ","k","g">>,
       aff |-> <<"C","l","u","b">>],
     [id |-> 22, born |-> <<"2","9"," ","F","e","b","r","u","a","r","y"," ","2","0","0","0"," ","i","n"," ","R","o","m","e",","," ","L","a","z","i","o"," ","(","I","T","A",")">>,
       noc |-> <<"I","T","A">>, meas |-> <<"1","7","8"," ","c","m"," ","/"," ","7","5"," ","k","g">>,
       aff |-> <<"C","l","u","b">>],
     [id |-> 23, born |-> <<"1"," ","M","a","y"," ","1","9","8","0"," ","i","n"," ","R","o","m","e",","," ","L","a","z","i","o"," ","(","I","T","A",")">>,
       noc |-> NULL, meas |-> <<"1","7","8"," ","c","m"," ","/"," ","7","5"," ","k","g">>,
       aff |-> <<"C","l","u","b">>]}

\* Measurements in every shape, the rest well-formed
MeasuredPeople ==
    {[id |-> 31, born |-> <<"1"," ","M","a","y"," ","1","9","8","0"," ","i","n"," ","R","o","m","e",","," ","L","a","z","i","o"," ","(","I","T","A",")">>,
       noc |-> <<"I","T","A">>, meas |-> <<"1","7","8"," ","c","m"," ","/"," ","7","5"," ","k","g">>,
       aff |-> <<"C","l","u","b">>],
     [id |-> 32, born |-> <<"1"," ","M","a","y"," ","1","9","8","0"," ","i","n"," ","R","o","m","e",","," ","L","a","z","i","o"," ","(","I","T","A",")">>,
       noc |-> <<"I","T","A">>, meas |-> <<"1","7","8"," ","c","m">>,
       aff |-> <<"C","l","u","b">>],
     [id |-> 33, born |-> <<"1"," ","M","a","y"," ","1","9","8","0"," ","i","n"," ","R","o","m","e",","," ","L","a","z","i","o"," ","(","I","T","A",")">>,
       noc |-> <<"I","T","A">>, meas |-> <<"7","5"," ","k","g">>,
       aff |-> <<"C","l","u","b">>],
     [id |-> 34, born |-> <<"1"," ","M","a","y"," ","1","9","8","0"," ","i","n"," ","R","o","m","e",","," ","L","a","z","i","o"," ","(","I","T","A",")">>,
       noc |-> <<"I","T","A">>, meas |-> NULL,
       aff |-> <<"C","l","u","b">>],
     [id |-> 35, born |-> <<"1"," ","M","a","y"," ","1","9","8","0"," ","i","n"," ","R","o","m","e",","," ","L","a","z","i","o"," ","(","I","T","A",")">>,
       noc |-> <<"I","T","A">>, meas |-> <<"7","5"," ","k","g"," ","/"," ","1","7","8"," ","c","m">>,
       aff |-> <<"C","l","u","b">>],
     [id |-> 36, born |-> <<"1"," ","M","a","y"," ","1","9","8","0"," ","i","n"," ","R","o","m","e",","," ","L","a","z","i","o"," ","(","I","T","A",")">>,
       noc |-> <<"I","T","A">>, meas |-> <<"1","7","8","c","m">>,
       aff |-> <<"C","l","u","b">>],
     [id |-> 37, born |-> <<"1"," ","M","a","y"," ","1","9","8","0"," ","i","n"," ","R","o","m","e",","," ","L","a","z","i","o"," ","(","I","T","A",")">>,
       noc |-> <<"I","T","A">>, meas |-> <<"t","a","l","l">>,
       aff |-> <<"C","l","u","b">>],
     [id |-> 38, born |-> <<"1"," ","M","a","y"," ","1","9","8","0"," ","i","n"," ","R","o","m","e",","," ","L","a","z","i","o"," ","(","I","T","A",")">>,
       noc |-> <<"I","T","A">>, meas |-> <<"1","8","0"," ","c","m"," ","/"," ","7","5"," ","k","g">>,
       aff |-> <<"C","l","u","b">>],
     [id |-> 39, born |-> <<"1"," ","M","a","y"," ","1","9","8","0"," ","i","n"," ","R","o","m","e",","," ","L","a","z","i","o"," ","(","I","T","A",")">>,
       noc |-> <<"I","T","A">>, meas |-> <<"1","7","0"," ","c","m"," ","/"," ","8","0"," ","k","g">>,
       aff |-> <<"C","l","u","b">>]}

\* Born strings "<day> <MonthName> <year> in <City>, <Region> (<Country>)",
\* one for each month
WellFormedBorn ==
    <<[d |-> 12, m |-> 1, y |-> 1980, city |-> <<"P","a","r","i","s">>,
       region |-> <<"F","r","a","n","c","e">>, country |-> <<"I","l","e">>],
      [d |-> 29, m |-> 2, y |-> 2000, city |-> <<"R","o","m","e">>,
       region |-> <<"L","a","z","i","o">>, country |-> <<"I","T","A">>],
      [d |-> 3, m |-> 3, y |-> 1970, city |-> <<"O","s","l","o">>,
       region |-> <<"V","i","k","e","n">>, country |-> <<"N","O","R">>],
      [d |-> 30, m |-> 4, y |-> 1965, city |-> <<"B","e","r","n">>,
       region |-> <<"B","e","r","n">>, country |-> <<"S","U","I">>],
      [d |-> 1, m |-> 5, y |-> 1980, city |-> <<"R","o","m","e">>,
       region |-> <<"L","a","z","i","o">>, country |-> <<"I","T","A">>],
      [d |-> 2, m |-> 6, y |-> 1990, city |-> <<"O","s","l","o">>,
       region |-> <<"V","i","k","e","n">>, country |-> <<"N","O","R">>],
      [d |-> 31, m |-> 7, y |-> 1985, city |-> <<"P","a","r","i","s">>,
       region |-> <<"F","r","a","n","c","e">>, country |-> <<"I","l","e">>],
      [d |-> 8, m |-> 8, y |-> 1908, city |-> <<"B","e","r","n">>,
       region |-> <<"B","e","r","n">>, country |-> <<"S","U","I">>],
      [d |-> 9, m |-> 9, y |-> 1999, city |-> <<"R","o","m","e">>,
       region |-> <<"L","a","z","i","o">>, country |-> <<"I","T","A">>],
      [d |-> 10, m |-> 10, y |-> 2010, city |-> <<"O","s","l","o">>,
       region |-> <<"V","i","k","e","n">>, country |-> <<"N","O","R">>],
      [d |-> 11, m |-> 11, y |-> 1911, city |-> <<"P","a","r","i","s">>,
       region |-> <<"F","r","a","n","c","e">>, country |-> <<"I","l","e">>],
      [d |-> 25, m |-> 12, y |-> 1925, city |-> <<"B","e","r","n">>,
       region |-> <<"B","e","r","n">>, country |-> <<"S","U","I">>]>>

RECURSIVE ToText(_)
ToText(n) == IF n < 10 THEN <<Digits[n + 1]>> ELSE ToText(n \div 10) \o <<Digits[(n % 10) + 1]>>

Compose(c) ==
    ToText(c.d) \o <<" ">> \o Months[c.m][1] \o <<" ">> \o ToText(c.y)
    \o <<" ","i","n"," ">> \o c.city \o <<","," ">> \o c.region
    \o <<" ","(">> \o c.country \o <<")">>

WellFormedPeople ==
    {[id |-> 100 + k, born |-> Compose(WellFormedBorn[k]), noc |-> <<"I","T","A">>,
      meas |-> <<"1","7","8"," ","c","m"," ","/"," ","7","5"," ","k","g">>,
      aff |-> <<"C","l","u","b">>] : k \in 1..Len(WellFormedBorn)}
    \cup {[id |-> 100, born |-> NULL, noc |-> <<"I","T","A">>,
           meas |-> <<"1","8","0"," ","c","m">>, aff |-> NULL],
          [id |-> 99, born |-> <<"1","9","8","0">>, noc |-> <<"I","T","A">>,
           meas |-> NULL, aff |-> <<"C","l","u","b">>]}

Tables(pool) == UNION {[1..n -> pool] : n \in 0..MaxRows}

Files(headers, pool) ==
    {[exists |-> TRUE, header |-> h, rows |-> [i \in 1..Len(t) |-> Line(h, t[i])]] :
        h \in headers, t \in Tables(pool)}
    \cup {[exists |-> FALSE, header |-> <<>>, rows |-> <<>>]}

Start(files) ==
    /\ pc = "load"
    /\ bios \in files
    /\ dataset = None
    /\ df = None
    /\ new_data1 = None
    /\ new_data2 = None
    /\ new_data3 = None
    /\ new_data4 = None
    /\ output = None
    /\ csv = NoFile
    /\ writes = 0
    /\ ran = <<>>

Init == Start(Files(Headers, People))

InitBorn == Start(Files({FullHeader}, BornPeople))

InitMeasurements == Start(Files({FullHeader}, MeasuredPeople))

InitWellFormed == Start(Files({FullHeader}, WellFormedPeople))

Next ==
    \/ Load
    \/ DropDuplicatesCell
    \/ DropColumns
    \/ Rearrange
    \/ InsertName
    \/ DropNameColumns
    \/ SplitBorn
    \/ ReplaceMonths
    \/ StripBorn
    \/ InsertBorn
    \/ ParseBirthDate
    \/ CleanLocation
    \/ SplitLocation
    \/ InsertLocation
    \/ SplitRegion
    \/ InsertRegion
    \/ CleanCountry
    \/ DropBornColumns
    \/ DropNullNOC
    \/ SplitMeasurements
    \/ AssignMeasurements
    \/ ReplaceUnits
    \/ ToNumericCell
    \/ DropMeasurements
    \/ Project
    \/ FillUnknown
    \/ Impute
    \/ FillBirthDate
    \/ RoundCell
    \/ CopyOutput
    \/ ToCsv

Spec == Init /\ [][Next]_vars

SpecBorn == InitBorn /\ [][Next]_vars

SpecMeasurements == InitMeasurements /\ [][Next]_vars

SpecWellFormed == InitWellFormed /\ [][Next]_vars

\* tables of up to MaxImputeRows rows whose heights and weights tie, repeat
\* or are missing
MaxImputeRows == 3

RomeBorn ==
    <<"1"," ","M","a","y"," ","1","9","8","0"," ","i","n"," ","R","o","m","e",","," ","L","a","z","i","o"," ","(","I","T","A",")">>

ImputedPeople ==
    {[id |-> 41, born |-> RomeBorn, noc |-> <<"I","T","A">>,
      meas |-> <<"1","8","0"," ","c","m"," ","/"," ","7","5"," ","k","g">>, aff |-> NULL],
     [id |-> 42, born |-> RomeBorn, noc |-> <<"I","T","A">>,
      meas |-> <<"1","7","0"," ","c","m"," ","/"," ","8","0"," ","k","g">>, aff |-> NULL],
     [id |-> 43, born |-> RomeBorn, noc |-> <<"I","T","A">>,
      meas |-> NULL, aff |-> NULL],
     [id |-> 44, born |-> RomeBorn, noc |-> <<"I","T","A">>,
      meas |-> <<"1","8","0"," ","c","m"," ","/"," ","8","0"," ","k","g">>, aff |-> NULL],
     [id |-> 45, born |-> RomeBorn, noc |-> <<"I","T","A">>,
      meas |-> <<"1","7","8"," ","c","m">>, aff |-> NULL]}

ImputedFiles ==
    {[exists |-> TRUE, header |-> FullHeader,
      rows |-> [i \in 1..Len(t) |-> Line(FullHeader, t[i])]] :
        t \in UNION {[1..n -> ImputedPeople] : n \in 0..MaxImputeRows}}

InitImpute == Start(ImputedFiles)

SpecImpute == InitImpute /\ [][Next]_vars

-----------------------------------------------------------------------------
(* Properties. *)

HasRun(cell) == cell \in Range(ran)

\* the cell that raised
Raised == IF pc = "failed" THEN Cells[Len(ran) + 1] ELSE "none"

\* the line of bios.csv a row of df or output was read from
Source(r) == dataset.rows[r.idx + 1].v

TypeOK ==
    /\ pc \in Range(Cells) \cup {"done", "failed"}
    /\ Len(ran) <= Len(Cells)
    /\ ran = SubSeq(Cells, 1, Len(ran))
    /\ pc \in Range(Cells) => pc = Cells[Len(ran) + 1]
    /\ writes \in 0..1

ParseCells ==
    {"split_born", "replace_months", "strip_born", "insert_born",
     "parse_birth_date", "clean_location", "split_location", "insert_location",
     "split_region", "insert_region", "clean_country", "split_measurements",
     "assign_measurements", "replace_units", "to_numeric"}

\* C1: the Born and Measurements parsing cells never raise, whatever the
\* table: stated here for the tables the claim names, those with at least one
\* row and with Born and Measurements text in every row.
C1_ParsingNeverRaises ==
    (/\ pc = "failed"
     /\ HasRun("load")
     /\ dataset.rows # <<>>
     /\ \A i \in 1..Len(dataset.rows) :
           /\ dataset.rows[i].v["Born"] # NULL
           /\ dataset.rows[i].v["Measurements"] # NULL)
    => Raised \notin ParseCells

\* C2: a Born string "<day> <MonthName> <year> in <City>, <Region> (<Country>)"
\* comes out as that date, City, Region and Country, nothing around them.
C2_WellFormedBorn ==
    pc = "done" =>
        \A i \in 1..Len(csv.rows) : \A k \in 1..Len(WellFormedBorn) :
            Source(output.rows[i])["Born"] = Compose(WellFormedBorn[k]) =>
                /\ csv.rows[i]["birth_date"] =
                      <<WellFormedBorn[k].y, WellFormedBorn[k].m, WellFormedBorn[k].d>>
                /\ csv.rows[i]["City"] = WellFormedBorn[k].city
                /\ csv.rows[i]["Region"] = WellFormedBorn[k].region
                /\ csv.rows[i]["Country"] = WellFormedBorn[k].country

C2_Witness ==
    /\ pc = "done"
    /\ Len(csv.rows) = 2
    /\ \E k \in 1..Len(WellFormedBorn) :
          Source(output.rows[1])["Born"] = Compose(WellFormedBorn[k])
    /\ Source(output.rows[2])["Born"] = NULL

\* the number a measurement fragment carries: its digits
NumberIn(s) ==
    IF SelectSeq(s, IsDigit) = <<>> THEN NaN ELSE IntOf(SelectSeq(s, IsDigit))

\* C3: a Measurements value without "/" that contains "cm" gives its number
\* as height_cm and no weight_kg; else one that contains "kg" gives its
\* number as weight_kg and no height_cm; else neither (before imputation).
C3_SingleFragment ==
    (HasRun("to_numeric") /\ ~HasRun("impute")) =>
        \A i \in 1..Len(df.rows) :
            LET m == Source(df.rows[i])["Measurements"]
                h == df.rows[i].v["height_cm"]
                w == df.rows[i].v["weight_kg"]
            IN  (m # NULL /\ ~Contains(m, <<"/">>)) =>
                    IF Contains(m, CM) THEN h = NumberIn(m) /\ w = NaN
                    ELSE IF Contains(m, KG) THEN w = NumberIn(m) /\ h = NaN
                    ELSE h = NaN /\ w = NaN

\* the lines of bios.csv that are the first of their kind
FirstOccurrences ==
    {i \in 1..Len(dataset.rows) :
        \A j \in 1..(i - 1) : dataset.rows[j].v # dataset.rows[i].v}

\* C4: once the null-NOC rows are dropped, no row has a null NOC, every
\* deduplicated row with an NOC is still there, and the row count is the
\* deduplicated count less the deduplicated rows without NOC.
C4_NullNOCDropped ==
    HasRun("drop_null_noc") =>
        /\ \A i \in 1..Len(df.rows) : df.rows[i].v["NOC"] # NULL
        /\ {df.rows[i].idx : i \in 1..Len(df.rows)} =
              {j - 1 : j \in {k \in FirstOccurrences : dataset.rows[k].v["NOC"] # NULL}}
        /\ Len(df.rows) =
              Cardinality(FirstOccurrences)
              - Cardinality({k \in FirstOccurrences : dataset.rows[k].v["NOC"] = NULL})
        /\ pc = "done" => \A i \in 1..Len(csv.rows) : csv.rows[i]["NOC"] # NULL

C4_Witness ==
    /\ pc = "done"
    /\ Len(csv.rows) = 1
    /\ Cardinality(FirstOccurrences) = 2
    /\ \E k \in FirstOccurrences : dataset.rows[k].v["NOC"] = NULL

\* C5: in the output City, Region, Country and Affiliations are never null,
\* and are "Unknown" wherever parsing left them null: Born absent, no second
\* fragment of the location or of the region-country, Affiliations absent.
C5_UnknownDefaults ==
    pc = "done" =>
        \A i \in 1..Len(csv.rows) :
            LET idx == output.rows[i].idx
                src == Source(output.rows[i])
                row == csv.rows[i]
            IN  /\ \A c \in {"City", "Region", "Country", "Affiliations"} : row[c] # NULL
                /\ src["Affiliations"] = NULL => row["Affiliations"] = Unknown
                /\ src["Born"] = NULL =>
                      row["City"] = Unknown /\ row["Region"] = Unknown /\ row["Country"] = Unknown
                /\ At(new_data2, idx, 0) = NULL => row["City"] = Unknown
                /\ At(new_data2, idx, 1) = NULL =>
                      row["Region"] = Unknown /\ row["Country"] = Unknown
                /\ At(new_data3, idx, 1) = NULL => row["Country"] = Unknown

C5_Witness ==
    /\ pc = "done"
    /\ \E i \in 1..Len(csv.rows) :
          /\ Source(output.rows[i])["Affiliations"] = NULL
          /\ Source(output.rows[i])["Born"] # NULL
          /\ At(new_data2, output.rows[i].idx, 1) = NULL
          /\ csv.rows[i]["City"] # Unknown
          /\ csv.rows[i]["Region"] = Unknown

\* the date the Born text of a row parsed to: new_data1[0] holds the date
\* fragment after the month names were replaced
ParsedDate(idx) == ToDatetime(RemoveSpaces(At(new_data1, idx, 0)))

\* C6: in the output no birth_date is null; it is 1975-01-01 where Born is
\* absent or its date fragment is not day-month-year, the parsed date elsewhere.
C6_SentinelDate ==
    pc = "done" =>
        \A i \in 1..Len(csv.rows) :
            LET idx == output.rows[i].idx
                date == csv.rows[i]["birth_date"]
            IN  /\ date # NaT
                /\ Source(output.rows[i])["Born"] = NULL => date = <<1975, 1, 1>>
                /\ ParsedDate(idx) = NaT => date = <<1975, 1, 1>>
                /\ ParsedDate(idx) # NaT => date = ParsedDate(idx)

C6_Witness ==
    /\ pc = "done"
    /\ Len(csv.rows) = 2
    /\ ParsedDate(output.rows[1].idx) = NaT
    /\ Source(output.rows[1])["Born"] # NULL
    /\ csv.rows[1]["birth_date"] = <<1975, 1, 1>>
    /\ csv.rows[2]["birth_date"] = <<1980, 5, 1>>

\* C7: the file written has the twelve columns identifier, name, sex,
\* birth_date, city, region, country, NOC, height_cm, weight_kg, roles,
\* affiliations, in this order, and every row has exactly these.
C7_Schema ==
    pc = "done" =>
        /\ csv.header =
              <<"athlete_id", "name", "Sex", "birth_date", "City", "Region",
                "Country", "NOC", "height_cm", "weight_kg", "Roles", "Affiliations">>
        /\ \A i \in 1..Len(csv.rows) : DOMAIN csv.rows[i] = Range(csv.header)
        /\ Range(csv.header) \cap
              {"Born", "Died", "Measurements", "birth_location", "Region_country"} = {}

C7_Witness ==
    /\ pc = "done"
    /\ "Comment" \in Range(bios.header)
    /\ Len(csv.rows) = 2

\* C8: deduplication leaves no two rows alike, keeps the first of each kind
\* in the file's order, and run again changes nothing.
C8_Deduplication ==
    pc = "drop_columns" =>
        /\ \A i, j \in 1..Len(df.rows) : i # j => df.rows[i].v # df.rows[j].v
        /\ {df.rows[i].idx + 1 : i \in 1..Len(df.rows)} = FirstOccurrences
        /\ \A i \in 1..Len(df.rows) : df.rows[i].v = Source(df.rows[i])
        /\ \A i, j \in 1..Len(df.rows) : i < j => df.rows[i].idx < df.rows[j].idx
        /\ DropDuplicates(df.rows) = df.rows

C8_Witness ==
    /\ pc = "drop_columns"
    /\ Len(dataset.rows) = 2
    /\ Len(df.rows) = 1

\* C9: the output file is written once, by the last cell, after the load and
\* every cell before it completed; a run that stopped earlier leaves no file.
C9_WrittenOnceAtEnd ==
    /\ writes <= 1
    /\ pc = "done" => writes = 1 /\ csv.state = "complete" /\ ran = Cells
    /\ (csv.state # "absent" \/ writes > 0) => SubSeq(Cells, 1, Len(Cells) - 1) = SubSeq(ran, 1, Len(Cells) - 1)
    /\ (pc = "failed" /\ Raised # "to_csv") => csv = NoFile /\ writes = 0
    /\ ~bios.exists => csv = NoFile /\ writes = 0

C9_Witness ==
    /\ pc = "done"
    /\ writes = 1
    /\ csv.state = "complete"
    /\ Len(csv.rows) = 2

\* C10: the column-pruning cell completes whichever prunable columns the
\* table has.
C10_PruningNeverRaises == Raised # "drop_columns"

\* the text after the first occurrence of d in s
AfterFirst(s, d) == SubSeq(s, Find(s, d, 1) + Len(d), Len(s))

BornInBerlin ==
    <<"3"," ","J","u","l","y"," ","1","9","8","5"," ","i","n"," ",
      "B","e","r","l","i","n",","," ","B","e","r","l","i","n"," ","(","G","E","R",")">>

\* C11: Born is split at the first "in" only: birth_location is all the text
\* after it, so "... in Berlin, Berlin (GER)" gives City Berlin, Region
\* Berlin, Country GER.
C11_SplitAtFirstIn ==
    /\ pc \in {"parse_birth_date", "clean_location"} =>
          \A i \in 1..Len(df.rows) :
              LET born == Source(df.rows[i])["Born"]
              IN  (born # NULL /\ Contains(born, <<"i","n">>)) =>
                      df.rows[i].v["birth_location"] =
                          StrStrip(AfterFirst(born, <<"i","n">>))
    /\ pc = "done" =>
          \A i \in 1..Len(csv.rows) :
              Source(output.rows[i])["Born"] = BornInBerlin =>
                  /\ csv.rows[i]["City"] = <<"B","e","r","l","i","n">>
                  /\ csv.rows[i]["Region"] = <<"B","e","r","l","i","n">>
                  /\ csv.rows[i]["Country"] = <<"G","E","R">>

\* C12: with two fragments around "/" the number of the first is height_cm
\* and the number of the second is weight_kg, whatever unit each carries
\* (before imputation): "75 kg / 178 cm" gives height 75 and weight 178.
C12_TwoFragments ==
    (HasRun("to_numeric") /\ ~HasRun("impute")) =>
        \A i \in 1..Len(df.rows) :
            LET m == Source(df.rows[i])["Measurements"]
            IN  (m # NULL /\ Len(StrSplit(m, <<"/">>)) = 2) =>
                    /\ df.rows[i].v["height_cm"] = NumberIn(StrSplit(m, <<"/">>)[1])
                    /\ df.rows[i].v["weight_kg"] = NumberIn(StrSplit(m, <<"/">>)[2])

\* x is among the most frequent observed values of the column
IsMode(rows, col, x) ==
    /\ x \in Observed(rows, col)
    /\ \A y \in Observed(rows, col) : Count(rows, col, y) <= Count(rows, col, x)

\* the imputation cell keeps every observed value and puts fill(col) in the
\* place of every missing one, column by column
ImputedWith(col, x) ==
    \A i \in 1..Len(df.rows) :
        df'.rows[i].v[col] =
            IF df.rows[i].v[col] = NaN THEN x ELSE df.rows[i].v[col]

ImputeCompletes == pc = "impute" /\ pc' = "fill_birth_date"

Position(cell) ==
    IF HasRun(cell) THEN CHOOSE k \in 1..Len(ran) : ran[k] = cell ELSE 0

\* cell b has not run unless cell a ran before it
Before(a, b) == HasRun(b) => (HasRun(a) /\ Position(a) < Position(b))

BornCells ==
    {"split_born", "replace_months", "strip_born", "insert_born",
     "parse_birth_date", "clean_location", "split_location", "insert_location",
     "split_region", "insert_region", "clean_country", "drop_born_columns"}

MeasurementsCells ==
    {"split_measurements", "assign_measurements", "replace_units", "to_numeric",
     "drop_measurements"}

PolicyCells == {"fill_unknown", "impute", "fill_birth_date", "round"}

\* C14: the stages run in this order: the Born parse and the drop of its raw
\* columns, the null-NOC row drop, the Measurements parse and the drop of
\* its raw column, the projection to the final schema, the "Unknown"
\* defaults, imputation, the sentinel date and rounding, and last the copy
\* and the write of the table.
C14_CellOrder ==
    /\ \A c \in BornCells : Before(c, "drop_null_noc")
    /\ \A c \in MeasurementsCells : Before("drop_null_noc", c)
    /\ \A c \in MeasurementsCells : Before(c, "project")
    /\ \A c \in PolicyCells : Before("project", c)
    /\ \A c \in PolicyCells : Before(c, "copy_output")
    /\ Before("copy_output", "to_csv")
    /\ HasRun("split_measurements") =>
          \A i \in 1..Len(df.rows) : df.rows[i].v["NOC"] # NULL
    /\ HasRun("project") =>
          df.columns = <<"athlete_id", "name", "Sex", "birth_date", "City", "Region",
                         "Country", "NOC", "height_cm", "weight_kg", "Roles", "Affiliations">>

\* a run that dropped a row without NOC, parsed Measurements and projected,
\* with the defaults still to come
C14_Witness ==
    /\ pc = "fill_unknown"
    /\ Len(dataset.rows) = 2
    /\ Len(df.rows) = 1
    /\ dataset.rows[1].v["NOC"] = NULL
    /\ df.rows[1].v["Affiliations"] = NULL
    /\ df.rows[1].v["height_cm"] = 170

\* C14 as stated: every parse cell and the drops of the raw columns come
\* before the null-NOC drop and the other missing-value steps, and the
\* projection comes after all of these and right before the table is emitted.
C14_StatedOrder ==
    /\ \A c \in BornCells \cup MeasurementsCells :
          \A p \in PolicyCells \cup {"drop_null_noc"} : Before(c, p)
    /\ \A p \in PolicyCells \cup {"drop_null_noc"} : Before(p, "project")
    /\ HasRun("copy_output") =>
          Position("project") = Position("copy_output") - 1

BornInNewYork ==
    <<"4"," ","M","a","r","c","h"," ","1","9","7","0"," ","i","n"," ",
      "N","e","w"," ","Y","o","r","k",","," ","N","e","w"," ","Y","o","r","k"," ",
      "(","U","S","A",")">>

\* the characters of s that are not spaces
NoSpaces(s) == SelectSeq(s, LAMBDA c : c # " ")

\* C15: every space of the location fragment of Born is removed, those
\* inside a name as well as those around it: "New York, New York (USA)"
\* gives City NewYork, Region NewYork and Country USA.
C15_SpacesRemoved ==
    /\ (HasRun("clean_location") /\ ~HasRun("drop_born_columns")) =>
          \A i \in 1..Len(df.rows) :
              LET loc == At(new_data1, df.rows[i].idx, 1)
              IN  df.rows[i].v["birth_location"] =
                      IF loc = NULL THEN NULL ELSE NoSpaces(loc)
    /\ pc = "done" =>
          \A i \in 1..Len(csv.rows) :
              Source(output.rows[i])["Born"] = BornInNewYork =>
                  /\ csv.rows[i]["City"] = <<"N","e","w","Y","o","r","k">>
                  /\ csv.rows[i]["Region"] = <<"N","e","w","Y","o","r","k">>
                  /\ csv.rows[i]["Country"] = <<"U","S","A">>

C15_Witness ==
    /\ pc = "done"
    /\ \E i \in 1..Len(csv.rows) :
          /\ Source(output.rows[i])["Born"] = BornInNewYork
          /\ csv.rows[i]["City"] = <<"N","e","w","Y","o","r","k">>
          /\ csv.rows[i]["birth_date"] = <<1970, 3, 4>>

\* C15 as stated: only the whitespace around the location fragment goes, so
\* "New York, New York (USA)" gives City "New York" and Region "New York".
C15_InnerWhitespaceKept ==
    /\ (HasRun("clean_location") /\ ~HasRun("drop_born_columns")) =>
          \A i \in 1..Len(df.rows) :
              df.rows[i].v["birth_location"] = At(new_data1, df.rows[i].idx, 1)
    /\ pc = "done" =>
          \A i \in 1..Len(csv.rows) :
              Source(output.rows[i])["Born"] = BornInNewYork =>
                  /\ csv.rows[i]["City"] = <<"N","e","w"," ","Y","o","r","k">>
                  /\ csv.rows[i]["Region"] = <<"N","e","w"," ","Y","o","r","k">>

BornInUlm ==
    <<"5"," ","A","p","r","i","l"," ","1","9","6","0"," ","i","n"," ",
      "U","l","m",","," ","B","a","d","e","n",","," ","S","u","e","d"," ","(","G","E","R",")">>

\* C16: birth_location is split at its first comma only: City is the text
\* before it and Region_country all the text after it, so with two commas
\* the parenthesized qualifier is kept and Country comes from it:
\* "Ulm, Baden, Sued (GER)" gives City Ulm and Country GER.
C16_SplitAtFirstComma ==
    /\ (HasRun("insert_location") /\ ~HasRun("drop_born_columns")) =>
          \A i \in 1..Len(df.rows) :
              LET loc == df.rows[i].v["birth_location"]
              IN  (loc # NULL /\ Contains(loc, <<",">>)) =>
                      /\ df.rows[i].v["City"] = SubSeq(loc, 1, Find(loc, <<",">>, 1) - 1)
                      /\ HasRun("insert_region") \/
                            df.rows[i].v["Region_country"] = AfterFirst(loc, <<",">>)
    /\ pc = "done" =>
          \A i \in 1..Len(csv.rows) :
              Source(output.rows[i])["Born"] = BornInUlm =>
                  /\ csv.rows[i]["City"] = <<"U","l","m">>
                  /\ csv.rows[i]["Country"] = <<"G","E","R">>

\* C17: a table the pipeline emits has a height_cm and a weight_kg in every
\* row: the copy that is written and the written file hold no missing one,
\* whatever the input, a fragment that is no number or a column without any
\* number included.
C17_NoNullMeasurements ==
    /\ HasRun("copy_output") =>
          \A i \in 1..Len(output.rows) :
              /\ output.rows[i].v["height_cm"] # NaN
              /\ output.rows[i].v["weight_kg"] # NaN
    /\ \A i \in 1..Len(csv.rows) :
          /\ csv.rows[i]["height_cm"] # NaN
          /\ csv.rows[i]["weight_kg"] # NaN
    /\ (pc = "done" \/ csv.state # "absent") =>
          /\ HasRun("impute")
          /\ output.rows # <<>>

\* a row whose Measurements is no number at all is written with the height
\* and weight of the other row
C17_Witness ==
    /\ pc = "done"
    /\ Len(csv.rows) = 2
    /\ \E i \in 1..2 :
          /\ Source(output.rows[i])["Measurements"] = <<"t","a","l","l">>
          /\ csv.rows[i]["height_cm"] = 178
          /\ csv.rows[i]["weight_kg"] = 75

====
